---- MODULE Spec2Model ----
(***************************************************************************)
(* Model of warehouseback.py: a Flask service that keeps a warehouse in    *)
(* one Excel workbook (EXCEL_FILE).  The workbook holds the bin map sheet  *)
(* ('map'), the intake ledger sheet ('test'), two dropdown sheets, the     *)
(* customer sheet and the goods sheet.  Every handler loads the whole      *)
(* workbook, works on the in-memory copy, and submit_data saves it back.   *)
(*                                                                         *)
(* Text is modelled as sequences of one-character strings, a spreadsheet   *)
(* cell as a pair <<type, text>>.  The Chinese header and form labels of   *)
(* the source are written with ASCII stand-ins (TLA+ strings are ASCII):   *)
(* the stand-in of each label is given where it is defined.                *)
(***************************************************************************)
EXTENDS Naturals, Sequences, FiniteSets, TLC

(***************************************************************************)
(* Python values and string methods                                        *)
(***************************************************************************)
LF == "\n"
SP == " "

\* A cell value / form value: None, a str, or an int (text = its decimal form).
None == <<"none", <<>>>>
Str(s) == <<"str", s>>
Int(digits) == <<"int", digits>>

IsNone(v) == v[1] = "none"
IsStr(v) == v[1] = "str"

\* Python truthiness of a value: None, '' and 0 are falsy.
Truthy(v) ==
    CASE v[1] = "none" -> FALSE
      [] v[1] = "str" -> v[2] # <<>>
      [] OTHER -> v[2] # <<"0">>

\* str(v) and the f-string conversion "{v}": None becomes the text None.
PyStr(v) == IF IsNone(v) THEN <<"N", "o", "n", "e">> ELSE v[2]

RECURSIVE LStrip(_)
LStrip(s) == IF s # <<>> /\ Head(s) \in {SP, LF} THEN LStrip(Tail(s)) ELSE s

RECURSIVE RStrip(_)
RStrip(s) ==
    IF s # <<>> /\ s[Len(s)] \in {SP, LF} THEN RStrip(SubSeq(s, 1, Len(s) - 1)) ELSE s

\* str.strip()
Strip(s) == RStrip(LStrip(s))

LowerChar(c) ==
    CASE c = "A" -> "a"
      [] c = "B" -> "b"
      [] c = "C" -> "c"
      [] OTHER -> c

\* str.lower()
Lower(s) == [i \in 1..Len(s) |-> LowerChar(s[i])]

\* str.startswith(prefix)
StartsWith(s, prefix) ==
    /\ Len(prefix) <= Len(s)
    /\ SubSeq(s, 1, Len(prefix)) = prefix

\* str.split(sep): the pieces between the separators, empty pieces kept.
RECURSIVE SplitFrom(_, _, _)
SplitFrom(s, sep, cur) ==
    IF s = <<>> THEN <<cur>>
    ELSE IF Head(s) = sep THEN <<cur>> \o SplitFrom(Tail(s), sep, <<>>)
    ELSE SplitFrom(Tail(s), sep, Append(cur, Head(s)))

Split(s, sep) == SplitFrom(s, sep, <<>>)

Digits == {"0", "1", "2", "3", "4", "5", "6", "7", "8", "9"}

DigitVal(c) ==
    CASE c = "0" -> 0 [] c = "1" -> 1 [] c = "2" -> 2 [] c = "3" -> 3
      [] c = "4" -> 4 [] c = "5" -> 5 [] c = "6" -> 6 [] c = "7" -> 7
      [] c = "8" -> 8 [] OTHER -> 9

DigitChar(d) ==
    CASE d = 0 -> "0" [] d = 1 -> "1" [] d = 2 -> "2" [] d = 3 -> "3"
      [] d = 4 -> "4" [] d = 5 -> "5" [] d = 6 -> "6" [] d = 7 -> "7"
      [] d = 8 -> "8" [] OTHER -> "9"

\* int(s) accepts surrounding whitespace around a non-empty run of digits
\* (a sign or an underscore is not in the modelled alphabet).
IntOk(s) ==
    /\ Strip(s) # <<>>
    /\ \A i \in 1..Len(Strip(s)) : Strip(s)[i] \in Digits

RECURSIVE DigitsVal(_)
DigitsVal(s) ==
    IF s = <<>> THEN 0
    ELSE 10 * DigitsVal(SubSeq(s, 1, Len(s) - 1)) + DigitVal(s[Len(s)])

IntVal(s) == DigitsVal(Strip(s))

\* "{n}" for a natural number n: its decimal digits, no leading zeros.
RECURSIVE Fmt(_)
Fmt(n) == IF n < 10 THEN <<DigitChar(n)>> ELSE Append(Fmt(n \div 10), DigitChar(n % 10))

\* max() of a non-empty set of numbers
SetMax(S) == CHOOSE y \in S : \A z \in S : z <= y

(***************************************************************************)
(* The workbook: the sheets submit_data writes and get_data reads          *)
(***************************************************************************)
\* A sheet's cells: a function from <<row, column>> to the cell's value, as
\* openpyxl's Worksheet._cells.  max_row and max_column are 1 for a sheet
\* with no cell.
max_row(sheet) ==
    IF DOMAIN sheet = {} THEN 1 ELSE SetMax({k[1] : k \in DOMAIN sheet})

max_column(sheet) ==
    IF DOMAIN sheet = {} THEN 1 ELSE SetMax({k[2] : k \in DOMAIN sheet})

\* map_sheet.cell(row, col).value
cell_value(sheet, row, col) ==
    IF <<row, col>> \in DOMAIN sheet THEN sheet[<<row, col>>] ELSE None

\* map_sheet.cell(row=row, column=col, value=v): the sheet with that cell set
set_cell(sheet, row, col, v) ==
    [k \in DOMAIN sheet \cup {<<row, col>>} |->
        IF k = <<row, col>> THEN v ELSE sheet[k]]

EmptySheet == [k \in {} |-> None]

\* The workbook the module creates when EXCEL_FILE does not exist: the bin
\* map sheet ('map') and the intake ledger sheet ('test', one row per
\* data_sheet.append) are empty.
NewWorkbook == [map |-> EmptySheet, test |-> <<>>]

\* A workbook an operator has edited by hand in Excel: a number typed into
\* one bin cell, a two-line text in another.
EditedWorkbook ==
    [map |-> (<<1, 2>> :> Int(<<"7">>)) @@ (<<2, 2>> :> Str(<<"Z", LF, "r">>)),
     test |-> <<>>]

InitialWorkbooks == {NewWorkbook, EditedWorkbook}

(***************************************************************************)
(* get_data: the bin map read from the 'map' sheet                         *)
(***************************************************************************)
\* Mutant: the position named row first.
position_name_row_first(col, row) == Fmt(row) \o <<"-">> \o Fmt(col)

\* f"{col}-{row}"
position_name(col, row) == Fmt(col) \o <<"-">> \o Fmt(row)

\* One element of binMapData.  A non-empty text cell is split on its line
\* breaks into binName, item, date and vendor; any other cell gives the
\* entry of an empty bin, which has no item, date or vendor.
bin_entry(sheet, row, col) ==
    LET cv == cell_value(sheet, row, col)
        lines == Split(cv[2], LF)
    IN IF Truthy(cv) /\ IsStr(cv)
       THEN [positionName |-> position_name(col, row),
             binName |-> IF Len(lines) > 0 THEN lines[1] ELSE <<>>,
             item |-> IF Len(lines) > 1 THEN lines[2] ELSE <<>>,
             date |-> IF Len(lines) > 2 THEN lines[3] ELSE <<>>,
             vendor |-> IF Len(lines) > 3 THEN lines[4] ELSE <<>>,
             binValue |-> cv[2]]
       ELSE [positionName |-> position_name(col, row),
             binName |-> <<>>,
             binValue |-> <<>>]

\* Mutant: empty cells are skipped instead of reported as empty bins.
RECURSIVE bin_map_columns_skipping(_, _, _)
bin_map_columns_skipping(sheet, row, col) ==
    IF col > max_column(sheet) THEN <<>>
    ELSE (IF Truthy(cell_value(sheet, row, col)) THEN <<bin_entry(sheet, row, col)>> ELSE <<>>)
         \o bin_map_columns_skipping(sheet, row, col + 1)

\* for col in range(1, map_sheet.max_column + 1): one entry per column,
\* appended whether the cell is empty or not.
RECURSIVE bin_map_columns(_, _, _)
bin_map_columns(sheet, row, col) ==
    IF col > max_column(sheet) THEN <<>>
    ELSE <<bin_entry(sheet, row, col)>> \o bin_map_columns(sheet, row, col + 1)

\* for row in range(1, map_sheet.max_row + 1)
RECURSIVE bin_map_rows(_, _)
bin_map_rows(sheet, row) ==
    IF row > max_row(sheet) THEN <<>>
    ELSE bin_map_columns(sheet, row, 1) \o bin_map_rows(sheet, row + 1)

\* binMapData of get_data's response
bin_map_data(sheet) == bin_map_rows(sheet, 1)

(***************************************************************************)
(* submit_data: the intake form, the ledger row and the bin cell           *)
(***************************************************************************)
\* The form fields other than positionName.  Stand-ins for the form keys:
\* date, material, vendor, dryness, grade, bin, weight, capacity, rate, note.
\* form_data.get(key) is None for a field the request does not carry.
FormA ==
    [date |-> Str(<<"d">>), material |-> Str(<<"m", SP, "n">>), vendor |-> Str(<<>>),
     dryness |-> Str(<<"1">>), grade |-> Str(<<"g">>), bin |-> Str(<<"A">>),
     weight |-> Str(<<"9">>), capacity |-> Str(<<"8">>), rate |-> Str(<<"7">>),
     note |-> Str(<<>>)]

\* A form with a line break in the material and no date.
FormB ==
    [date |-> None, material |-> Str(<<"m", LF, "n">>), vendor |-> Str(<<"v">>),
     dryness |-> None, grade |-> None, bin |-> Str(<<"B">>),
     weight |-> None, capacity |-> None, rate |-> None, note |-> None]

Forms == {FormA, FormB}

\* The positionName values a request may carry (None: the field is missing).
PositionNames ==
    { None,
      Str(<<>>),
      Str(<<"1", "-", "1">>),
      Str(<<"2", "-", "1">>),
      Str(<<"1", "-", "1", "0">>),
      Str(<<"0", "1", "-", SP, "1">>),
      Str(<<"0", "-", "1">>),
      Str(<<"1", "-", "0">>),
      Str(<<"-", "1", "-", "2">>),
      Str(<<"a", "b", "c">>),
      Str(<<"1", "-", "a">>),
      Str(<<"1", "-", "2", "-", "3">>),
      Str(<<"1", "-">>),
      Str(<<"5">>),
      Str(<<"-">>) }


\* new_row: the timestamp and the ten form fields, in the ledger's order.
new_row(timestamp, f) ==
    << <<"datetime", Fmt(timestamp)>>, f.date, f.material, f.vendor, f.dryness,
       f.grade, f.bin, f.weight, f.capacity, f.rate, f.note >>

\* new_cell_value: the four bin fields joined by line breaks (an f-string:
\* a missing field is written as the text None).
new_cell_value(f) ==
    Str(PyStr(f.bin) \o <<LF>> \o PyStr(f.material) \o <<LF>> \o PyStr(f.date)
        \o <<LF>> \o PyStr(f.vendor))

\* if not bin_position: raise ValueError
position_given(pn) == Truthy(pn)

\* col_index, row_index = map(int, bin_position.split('-')): succeeds when
\* the split has exactly two pieces and int() accepts both.
position_parses(pn) ==
    LET parts == Split(pn[2], "-")
    IN /\ Len(parts) = 2
       /\ IntOk(parts[1])
       /\ IntOk(parts[2])

col_index(pn) == IntVal(Split(pn[2], "-")[1])
row_index(pn) == IntVal(Split(pn[2], "-")[2])

\* Mutant: the cell write accepts any row and column.
cell_accepts_any(row, col) == TRUE

\* Worksheet.cell raises ValueError when row or column is below 1.
cell_accepts(row, col) == row >= 1 /\ col >= 1

\* The request passes every check between the append and the save.
position_ok(pn) ==
    /\ position_given(pn)
    /\ position_parses(pn)
    /\ cell_accepts(row_index(pn), col_index(pn))

\* The requests of the model: every form at every position that passes the
\* checks, and one form at each of the others.
Requests ==
    {[fields |-> f, positionName |-> pn] :
        f \in Forms, pn \in {x \in PositionNames : position_ok(x)}}
    \cup {[fields |-> FormA, positionName |-> pn] :
        pn \in {x \in PositionNames : ~position_ok(x)}}

(***************************************************************************)
(* The service: request handlers running in threads of one process         *)
(***************************************************************************)
\* Flask's app.run serves each request in its own thread: two submit_data
\* handlers and one reading handler can be in flight together.
Writers == {"w1", "w2"}

\* Requests submitted in one run.
MaxRequests == 2

VARIABLES
    excel_file,  \* the last complete content written to EXCEL_FILE
    torn,        \* EXCEL_FILE is being rewritten: truncated, not yet complete
    pc,          \* each submit_data handler's position
    wb,          \* each submit_data handler's loaded workbook
    form_data,   \* each submit_data handler's request
    status,      \* each submit_data handler's response
    requests,    \* submit requests received so far
    rstatus      \* the reading handler's last response

\* The read-only handlers (get_rowdown_data, get_data's dropdown options,
\* get_customers, get_goods_data) are modelled one call at a time:
VARIABLES
    call,        \* the handler called
    sheet_rows,  \* the rows of the sheet it reads (sheet.values)
    args,        \* its query parameters
    response     \* what it returns

vars == <<excel_file, torn, pc, wb, form_data, status, requests, rstatus,
          call, sheet_rows, args, response>>

reader_vars == <<rstatus, call, sheet_rows, args, response>>

store_vars == <<excel_file, torn, pc, wb, form_data, status, requests, rstatus>>

\* No call of a read-only handler is being looked at.
NoCall ==
    /\ call = "none"
    /\ sheet_rows = <<>>
    /\ args = <<>>
    /\ response = <<>>

NoRequest == [fields |-> FormA, positionName |-> None]

Init ==
    /\ excel_file \in InitialWorkbooks
    /\ torn = FALSE
    /\ pc = [p \in Writers |-> "idle"]
    /\ wb = [p \in Writers |-> NewWorkbook]
    /\ form_data = [p \in Writers |-> NoRequest]
    /\ status = [p \in Writers |-> "none"]
    /\ requests = 0
    /\ rstatus = "none"
    /\ NoCall

\* A handler thread is free: it has served no request, or has answered, or
\* was killed with the server process (which is started again).
Killed == {"killed_loaded", "killed_encoded", "killed_saving"}
Idle == {"idle", "done"} \cup Killed

\* form_data = request.form; wb = openpyxl.load_workbook(EXCEL_FILE).
\* Loading a file that is being rewritten raises, and the handler answers
\* with an error.
submit_load(p, req) ==
    /\ pc[p] \in Idle
    /\ requests < MaxRequests
    /\ requests' = requests + 1
    /\ form_data' = [form_data EXCEPT ![p] = req]
    /\ IF torn
       THEN /\ pc' = [pc EXCEPT ![p] = "done"]
            /\ status' = [status EXCEPT ![p] = "error"]
            /\ wb' = [wb EXCEPT ![p] = NewWorkbook]
       ELSE /\ pc' = [pc EXCEPT ![p] = "loaded"]
            /\ status' = [status EXCEPT ![p] = "none"]
            /\ wb' = [wb EXCEPT ![p] = excel_file]
    /\ UNCHANGED <<excel_file, torn, reader_vars>>

\* datetime.now(): time is counted in requests received.
datetime_now == requests

\* The workbook in memory after data_sheet.append(new_row).
appended(p) ==
    [wb[p] EXCEPT !.test = Append(@, new_row(datetime_now, form_data[p].fields))]

\* The workbook in memory after map_sheet.cell(row, column, value) as well.
encoded(p) ==
    [appended(p) EXCEPT !.map =
        set_cell(@, row_index(form_data[p].positionName),
                 col_index(form_data[p].positionName),
                 new_cell_value(form_data[p].fields))]

\* Mutant: the ledger row is written to the file as soon as it is appended,
\* before the position is checked.
submit_mutate_persisting(p) ==
    /\ pc[p] = "loaded"
    /\ excel_file' = [excel_file EXCEPT !.test = appended(p).test]
    /\ IF position_ok(form_data[p].positionName)
       THEN /\ wb' = [wb EXCEPT ![p] = encoded(p)]
            /\ pc' = [pc EXCEPT ![p] = "encoded"]
            /\ UNCHANGED status
       ELSE /\ wb' = [wb EXCEPT ![p] = NewWorkbook]
            /\ pc' = [pc EXCEPT ![p] = "done"]
            /\ status' = [status EXCEPT ![p] = "error"]
    /\ UNCHANGED <<torn, form_data, requests, reader_vars>>

\* From the timestamp to the cell write: the row is appended to the ledger
\* sheet in memory, then the position is checked and parsed and the bin
\* cell is set.  Any exception ends the handler with an error response.
submit_mutate(p) ==
    /\ pc[p] = "loaded"
    /\ IF position_ok(form_data[p].positionName)
       THEN /\ wb' = [wb EXCEPT ![p] = encoded(p)]
            /\ pc' = [pc EXCEPT ![p] = "encoded"]
            /\ UNCHANGED status
       ELSE /\ wb' = [wb EXCEPT ![p] = NewWorkbook]
            /\ pc' = [pc EXCEPT ![p] = "done"]
            /\ status' = [status EXCEPT ![p] = "error"]
    /\ UNCHANGED <<excel_file, torn, form_data, requests, reader_vars>>

\* wb.save(EXCEL_FILE) opens the file for writing in place: the old content
\* is gone as soon as the save starts.
submit_save_begin(p) ==
    /\ pc[p] = "encoded"
    /\ torn' = TRUE
    /\ pc' = [pc EXCEPT ![p] = "saving"]
    /\ UNCHANGED <<excel_file, wb, form_data, status, requests, reader_vars>>

\* The save completes and the handler answers success.  The file is whole
\* again unless another handler is still writing it.
submit_save_end(p) ==
    /\ pc[p] = "saving"
    /\ excel_file' = wb[p]
    /\ torn' = (\E q \in Writers \ {p} : pc[q] = "saving")
    /\ pc' = [pc EXCEPT ![p] = "done"]
    /\ status' = [status EXCEPT ![p] = "success"]
    /\ wb' = [wb EXCEPT ![p] = NewWorkbook]
    /\ UNCHANGED <<form_data, requests, reader_vars>>

InFlight == {"loaded", "encoded", "saving"}

\* The server process is killed: every handler in flight stops where it is
\* and answers nothing; its request and its workbook in memory are lost and
\* what is on disk stays as it is.
interrupt ==
    /\ \E p \in Writers : pc[p] \in InFlight
    /\ pc' = [p \in Writers |->
                CASE pc[p] = "loaded" -> "killed_loaded"
                  [] pc[p] = "encoded" -> "killed_encoded"
                  [] pc[p] = "saving" -> "killed_saving"
                  [] OTHER -> pc[p]]
    /\ wb' = [p \in Writers |-> NewWorkbook]
    /\ form_data' = [p \in Writers |-> IF pc[p] \in InFlight THEN NoRequest ELSE form_data[p]]
    /\ UNCHANGED <<excel_file, torn, status, requests, reader_vars>>

\* A reading handler (get_data, get_rowdown_data, get_customers,
\* get_goods_data) starts with wb = openpyxl.load_workbook(EXCEL_FILE) and
\* builds its response from the workbook it loaded; loading a file that is
\* being rewritten raises, and the handler answers with an error.
read ==
    /\ rstatus' = IF torn THEN "error" ELSE "ok"
    /\ UNCHANGED <<excel_file, torn, pc, wb, form_data, status, requests>>
    /\ UNCHANGED <<call, sheet_rows, args, response>>

Next ==
    \/ \E p \in Writers, req \in Requests : submit_load(p, req)
    \/ \E p \in Writers : submit_mutate(p)
    \/ \E p \in Writers : submit_save_begin(p)
    \/ \E p \in Writers : submit_save_end(p)
    \/ interrupt

\* The submit handlers alone.
Spec == Init /\ [][Next]_vars

\* The submit handlers and a reading handler running beside them.
NextWithReads == Next \/ read

SpecReads == Init /\ [][NextWithReads]_vars

(***************************************************************************)
(* Properties of the store                                                 *)
(***************************************************************************)
\* The four bin fields of a form are strings without a line break.
PlainFields(f) ==
    \A v \in {f.bin, f.material, f.date, f.vendor} :
        IsStr(v) /\ \A i \in 1..Len(v[2]) : v[2][i] # LF

\* The position string, read character by character: exactly one '-', and
\* on each side of it a decimal number above zero (blanks around it allowed).
Dashes(t) == {i \in 1..Len(t) : t[i] = "-"}
LeftOf(t) == SubSeq(t, 1, SetMax(Dashes(t)) - 1)
RightOf(t) == SubSeq(t, SetMax(Dashes(t)) + 1, Len(t))

PositiveNumber(t) ==
    /\ Strip(t) # <<>>
    /\ \A i \in 1..Len(Strip(t)) : Strip(t)[i] \in Digits
    /\ \E i \in 1..Len(Strip(t)) : Strip(t)[i] # "0"

WellFormedPosition(pn) ==
    /\ IsStr(pn)
    /\ Cardinality(Dashes(pn[2])) = 1
    /\ PositiveNumber(LeftOf(pn[2]))
    /\ PositiveNumber(RightOf(pn[2]))

\* The number a text of digits denotes is n: n's decimal form is the text
\* without its blanks and leading zeros.
RECURSIVE DropZeros(_)
DropZeros(t) == IF Len(t) > 1 /\ Head(t) = "0" THEN DropZeros(Tail(t)) ELSE t
Denotes(t, n) == DropZeros(Strip(t)) = Fmt(n)

MaxCoordinate == 12
Coordinates == 1..MaxCoordinate

\* The entries of a bin map with the given position name.
EntriesAt(data, name) == {k \in DOMAIN data : data[k].positionName = name}

\* A ledger is another with one row added at its end.
OneRowAppended(before, after) ==
    /\ Len(after) = Len(before) + 1
    /\ SubSeq(after, 1, Len(before)) = before

\* C1: every successful submit leaves the persisted ledger equal to the
\* ledger persisted before it with exactly one row appended, and no step
\* of any handler modifies, reorders or removes a persisted row.
C1_LedgerAppendOnly ==
    [][/\ \A p \in Writers :
            (pc[p] = "saving" /\ pc'[p] = "done")
                => OneRowAppended(excel_file.test, excel_file'.test)
       /\ \/ excel_file'.test = excel_file.test
          \/ OneRowAppended(excel_file.test, excel_file'.test)]_vars

\* The rows of a ledger that carry the fields of a form.
RowsOf(ledger, f) ==
    {i \in DOMAIN ledger : Tail(ledger[i]) = Tail(new_row(0, f))}

\* C2: once both submit handlers have reported success, the persisted
\* ledger holds a row of each and the persisted grid holds the cell of
\* each (the later one when both wrote the same cell): no update is lost.
C2_NoLostUpdate ==
    (\A p \in Writers : pc[p] = "done" /\ status[p] = "success")
        => /\ ~torn
           /\ \E i \in RowsOf(excel_file.test, form_data["w1"].fields) :
              \E j \in RowsOf(excel_file.test, form_data["w2"].fields) : i # j
           /\ \A p \in Writers :
                LET pn == form_data[p].positionName
                    cv == cell_value(excel_file.map, row_index(pn), col_index(pn))
                IN \E q \in Writers :
                      /\ cv = new_cell_value(form_data[q].fields)
                      /\ row_index(form_data[q].positionName) = row_index(pn)
                      /\ col_index(form_data[q].positionName) = col_index(pn)

\* C3: when a submit at position "c-r" with four plain string fields has
\* succeeded and no other write is under way, the bin map read from the
\* file has an entry named "c-r" whose binName, item, date and vendor are
\* the submitted bin label, material, date and vendor.
C3_RoundTrip ==
    [][\A p \in Writers :
          LET f == form_data[p].fields
              pn == form_data[p].positionName
          IN (/\ pc[p] = "saving"
              /\ pc'[p] = "done"
              /\ ~torn'
              /\ PlainFields(f)
              /\ \E c, r \in Coordinates : pn[2] = Fmt(c) \o <<"-">> \o Fmt(r))
             => LET data == bin_map_data(excel_file'.map)
                IN \E k \in EntriesAt(data, pn[2]) :
                   LET e == data[k]
                   IN /\ "item" \in DOMAIN e
                      /\ e.binName = f.bin[2]
                      /\ e.item = f.material[2]
                      /\ e.date = f.date[2]
                      /\ e.vendor = f.vendor[2]]_vars

C3_Witness ==
    \E p \in Writers :
        /\ pc[p] = "done"
        /\ status[p] = "success"
        /\ ~torn
        /\ PlainFields(form_data[p].fields)
        /\ form_data[p].positionName = Str(<<"1", "-", "1", "0">>)
        /\ Cardinality(EntriesAt(bin_map_data(excel_file.map), <<"1", "-", "1", "0">>)) = 1

\* C4: a submit whose positionName is missing or is not two positive
\* integers separated by '-' is answered with an error and never gets as
\* far as the save; a well-formed "c-r" is written to column c, row r.
C4_PositionChecked ==
    \A p \in Writers :
        LET pn == form_data[p].positionName
        IN /\ (pc[p] \in {"encoded", "saving"} \/ (pc[p] = "done" /\ status[p] = "success"))
              => WellFormedPosition(pn)
           /\ (pc[p] = "done" /\ ~WellFormedPosition(pn)) => status[p] = "error"
           /\ (pc[p] = "encoded")
              => \E c, r \in Coordinates :
                    /\ Denotes(LeftOf(pn[2]), c)
                    /\ Denotes(RightOf(pn[2]), r)
                    /\ <<r, c>> \in DOMAIN wb[p].map
                    /\ wb[p].map[<<r, c>>] = new_cell_value(form_data[p].fields)

C4_Witness ==
    /\ pc["w1"] = "done"
    /\ status["w1"] = "error"
    /\ form_data["w1"].positionName = Str(<<"0", "-", "1">>)
    /\ pc["w2"] = "encoded"
    /\ form_data["w2"].positionName = Str(<<"2", "-", "1">>)
    /\ <<1, 2>> \in DOMAIN wb["w2"].map

C6_GridDense ==
    LET sheet == excel_file.map
        data == bin_map_data(sheet)
    IN /\ Len(data) = max_row(sheet) * max_column(sheet)
       /\ \A c \in 1..max_column(sheet), r \in 1..max_row(sheet) :
             Cardinality(EntriesAt(data, Fmt(c) \o <<"-">> \o Fmt(r))) = 1

C6_Witness ==
    /\ <<10, 1>> \in DOMAIN excel_file.map
    /\ <<1, 2>> \in DOMAIN excel_file.map
    /\ <<5, 2>> \notin DOMAIN excel_file.map
    /\ Len(bin_map_data(excel_file.map)) = 20

\* C9: a read that runs while a submit is under way gets the complete
\* workbook of before or after the write, never a partly written file.
C9_ReadsSeeWholeFile == rstatus # "error"

(***************************************************************************)
(* Lookup extraction: get_rowdown_data and get_data's dropdownOptions      *)
(***************************************************************************)
\* HEADER_TO_JSON_KEY.  Stand-ins for the five header labels, in the
\* source's order: U (pricing unit), S (sales method), M (order creator),
\* D (delivery person), C (car number).
HEADER_TO_JSON_KEY ==
    (<<"U">> :> "pricingUnits") @@ (<<"S">> :> "salesMethods")
    @@ (<<"M">> :> "creatorNames") @@ (<<"D">> :> "deliveryPeople")
    @@ (<<"C">> :> "carNumbers")

\* Mutant: a value is kept only when it differs from the one before it.
RECURSIVE options_of_adjacent(_, _, _, _, _)
options_of_adjacent(rows, col_index_, k, seen_options, options_list) ==
    IF k > Len(rows) THEN options_list
    ELSE LET row == rows[k]
             value == Strip(PyStr(row[col_index_]))
         IN IF /\ Len(row) >= col_index_
               /\ ~IsNone(row[col_index_])
               /\ value # <<>>
               /\ (options_list = <<>> \/ options_list[Len(options_list)] # value)
            THEN options_of_adjacent(rows, col_index_, k + 1, seen_options,
                                     Append(options_list, value))
            ELSE options_of_adjacent(rows, col_index_, k + 1, seen_options, options_list)

\* for row in options_data_rows: the cell of the column, when it is there
\* and not None, is turned into text and stripped; it is added to the list
\* when it is not empty and not in seen_options.  Columns count from 1 here.
RECURSIVE options_of(_, _, _, _, _)
options_of(rows, col_index_, k, seen_options, options_list) ==
    IF k > Len(rows) THEN options_list
    ELSE LET row == rows[k]
             value == Strip(PyStr(row[col_index_]))
         IN IF /\ Len(row) >= col_index_
               /\ ~IsNone(row[col_index_])
               /\ value # <<>>
               /\ value \notin seen_options
            THEN options_of(rows, col_index_, k + 1, seen_options \cup {value},
                            Append(options_list, value))
            ELSE options_of(rows, col_index_, k + 1, seen_options, options_list)

\* d[key] = value on a dict
dict_set(d, key, value) == (key :> value) @@ d

EmptyDict == [k \in {} |-> <<>>]

\* get_rowdown_data: for col_index, header in enumerate(options_header),
\* a column is taken when its header is a str found in HEADER_TO_JSON_KEY.
RECURSIVE lookup_columns(_, _, _)
lookup_columns(values, c, lookup_data) ==
    IF c > Len(values[1]) THEN lookup_data
    ELSE LET header == values[1][c]
         IN IF IsStr(header) /\ header[2] \in DOMAIN HEADER_TO_JSON_KEY
            THEN lookup_columns(values, c + 1,
                     dict_set(lookup_data, HEADER_TO_JSON_KEY[header[2]],
                              options_of(Tail(values), c, 1, {}, <<>>)))
            ELSE lookup_columns(values, c + 1, lookup_data)

\* lookupData of get_rowdown_data's response (if options_values: ...)
lookup_data_of(values) ==
    IF values = <<>> THEN EmptyDict ELSE lookup_columns(values, 1, EmptyDict)

\* get_data: a column is taken when its header is truthy, and the header
\* itself is the key.
RECURSIVE dropdown_columns(_, _, _)
dropdown_columns(values, c, dropdown_options) ==
    IF c > Len(values[1]) THEN dropdown_options
    ELSE LET header == values[1][c]
         IN IF Truthy(header)
            THEN dropdown_columns(values, c + 1,
                     dict_set(dropdown_options, header,
                              options_of(Tail(values), c, 1, {}, <<>>)))
            ELSE dropdown_columns(values, c + 1, dropdown_options)

\* dropdownOptions of get_data's response
dropdown_options_of(values) ==
    IF values = <<>> THEN EmptyDict ELSE dropdown_columns(values, 1, EmptyDict)

\* The sheets of the model: two columns, a header row and data rows.
MaxOptionRows == 3

OptionHeaders1 == {None, Str(<<"U">>), Str(<<SP, "U">>), Str(<<"x">>), Int(<<"5">>)}
OptionHeaders2 == {None, Str(<<"U">>), Str(<<"C">>)}
OptionCells1 == {None, Str(<<>>), Str(<<"a">>), Str(<<SP, "a">>), Str(<<"b">>), Int(<<"0">>)}
OptionCells2 == {None, Str(<<"b", SP>>)}

OptionSheets ==
    {<<>>}
    \cup {<<h>> \o d :
            h \in OptionHeaders1 \X OptionHeaders2,
            d \in UNION {[1..n -> OptionCells1 \X OptionCells2] : n \in 0..MaxOptionRows}}

InitStoreIdle ==
    /\ excel_file = NewWorkbook
    /\ torn = FALSE
    /\ pc = [p \in Writers |-> "idle"]
    /\ wb = [p \in Writers |-> NewWorkbook]
    /\ form_data = [p \in Writers |-> NoRequest]
    /\ status = [p \in Writers |-> "none"]
    /\ requests = 0
    /\ rstatus = "none"

InitLookup ==
    /\ InitStoreIdle
    /\ call = "none"
    /\ sheet_rows \in OptionSheets
    /\ args = <<>>
    /\ response = <<>>

\* GET /api/rowdown_order
get_rowdown_data ==
    /\ call = "none"
    /\ call' = "get_rowdown_data"
    /\ response' = lookup_data_of(sheet_rows)
    /\ UNCHANGED <<sheet_rows, args, store_vars>>

\* GET /api/data, the dropdownOptions part
get_data_options ==
    /\ call = "none"
    /\ call' = "get_data"
    /\ response' = dropdown_options_of(sheet_rows)
    /\ UNCHANGED <<sheet_rows, args, store_vars>>

NextLookup == get_rowdown_data \/ get_data_options

SpecLookup == InitLookup /\ [][NextLookup]_vars

\* The values of a column that a lookup list must hold, read off the sheet:
\* row k counts when its cell is not None and not blank once trimmed and no
\* earlier row of the column has the same trimmed text.
ColumnText(values, c, k) == Strip(PyStr(values[k + 1][c]))

Counts(values, c, k) ==
    /\ ~IsNone(values[k + 1][c])
    /\ ColumnText(values, c, k) # <<>>
    /\ \A j \in 1..(k - 1) :
          IsNone(values[j + 1][c]) \/ ColumnText(values, c, j) # ColumnText(values, c, k)

RECURSIVE DistinctFrom(_, _, _)
DistinctFrom(values, c, k) ==
    IF k > Len(values) - 1 THEN <<>>
    ELSE (IF Counts(values, c, k) THEN <<ColumnText(values, c, k)>> ELSE <<>>)
         \o DistinctFrom(values, c, k + 1)

DistinctColumn(values, c) == DistinctFrom(values, c, 1)

\* The columns a variant takes, and the key it files a column under.
KeyedColumns(values) ==
    {c \in 1..Len(values[1]) :
        IsStr(values[1][c]) /\ values[1][c][2] \in {<<"U">>, <<"S">>, <<"M">>, <<"D">>, <<"C">>}}

UnkeyedColumns(values) ==
    {c \in 1..Len(values[1]) : values[1][c] \notin {None, Str(<<>>), Int(<<"0">>)}}

\* The column a key's list comes from: the last one with that header.
LastWith(values, cols, c) == SetMax({d \in cols : values[1][d] = values[1][c]})

\* C7 as stated: for every header row, the list returned for a column is the
\* trimmed, non-blank values of that column without repeats, in first-seen
\* order; the keyed variant has a key for the vocabulary's headers only.
C7_EveryColumnListed ==
    /\ (call = "get_rowdown_data" /\ sheet_rows # <<>>) =>
          /\ DOMAIN response =
                {HEADER_TO_JSON_KEY[sheet_rows[1][c][2]] : c \in KeyedColumns(sheet_rows)}
          /\ \A c \in KeyedColumns(sheet_rows) :
                response[HEADER_TO_JSON_KEY[sheet_rows[1][c][2]]] =
                    DistinctColumn(sheet_rows, c)
    /\ (call = "get_data" /\ sheet_rows # <<>>) =>
          /\ DOMAIN response = {sheet_rows[1][c] : c \in UnkeyedColumns(sheet_rows)}
          /\ \A c \in UnkeyedColumns(sheet_rows) :
                response[sheet_rows[1][c]] = DistinctColumn(sheet_rows, c)

\* C7 amended: the list returned under a header is the trimmed, non-blank
\* values without repeats, in first-seen order, of the last column with
\* that header (of the column itself when no later column repeats its
\* header); the keyed variant has a key for the vocabulary's headers only,
\* the other variant for every non-empty header; a sheet without rows
\* gives an empty mapping.
C7_LookupLists ==
    /\ (call = "get_rowdown_data" /\ sheet_rows = <<>>) => response = EmptyDict
    /\ (call = "get_data" /\ sheet_rows = <<>>) => response = EmptyDict
    /\ (call = "get_rowdown_data" /\ sheet_rows # <<>>) =>
          /\ DOMAIN response =
                {HEADER_TO_JSON_KEY[sheet_rows[1][c][2]] : c \in KeyedColumns(sheet_rows)}
          /\ \A c \in KeyedColumns(sheet_rows) :
                response[HEADER_TO_JSON_KEY[sheet_rows[1][c][2]]] =
                    DistinctColumn(sheet_rows, LastWith(sheet_rows, KeyedColumns(sheet_rows), c))
    /\ (call = "get_data" /\ sheet_rows # <<>>) =>
          /\ DOMAIN response = {sheet_rows[1][c] : c \in UnkeyedColumns(sheet_rows)}
          /\ \A c \in UnkeyedColumns(sheet_rows) :
                response[sheet_rows[1][c]] =
                    DistinctColumn(sheet_rows, LastWith(sheet_rows, UnkeyedColumns(sheet_rows), c))

C7_Witness ==
    /\ call = "get_rowdown_data"
    /\ Len(sheet_rows) = 4
    /\ sheet_rows[1] = <<Str(<<"U">>), Str(<<"C">>)>>
    /\ response["pricingUnits"] = <<<<"b">>, <<"a">>>>
    /\ sheet_rows[2][1] = Str(<<"b">>)
    /\ sheet_rows[3][1] = Str(<<SP, "a">>)
    /\ sheet_rows[4][1] = Str(<<"b">>)

(***************************************************************************)
(* get_customers: prefix search over the customer sheet                    *)
(***************************************************************************)
\* Stand-ins for the four header labels of the customer sheet: I (customer
\* number), N (customer name), P (customer phone), L (delivery address).
ID_HEADER == <<"I">>
NAME_HEADER == <<"N">>
PHONE_HEADER == <<"P">>
ADDRESS_HEADER == <<"L">>

\* request.args.get(name, '').strip().lower()
query_of(arg) == Lower(Strip(arg))

\* headers = [str(cell.value) for cell in customer_sheet[1]]
customer_headers(values) == [c \in 1..Len(values[1]) |-> PyStr(values[1][c])]

\* row_data = [str(cell.value or '').strip() for cell in row]
customer_row_data(row) ==
    [c \in 1..Len(row) |-> IF Truthy(row[c]) THEN Strip(PyStr(row[c])) ELSE <<>>]

\* for i, header in enumerate(headers): customer_info[header] = row_data[i]
\* (the empty string when the row is shorter than the header list)
RECURSIVE customer_info_of(_, _, _, _)
customer_info_of(headers, row_data, i, customer_info) ==
    IF i > Len(headers) THEN customer_info
    ELSE customer_info_of(headers, row_data, i + 1,
             dict_set(customer_info, headers[i],
                      IF i <= Len(row_data) THEN row_data[i] ELSE <<>>))

\* customer_info.get(key, '')
dict_get(d, key) == IF key \in DOMAIN d THEN d[key] ELSE <<>>

\* Mutant: the query may occur anywhere in the value ('in').
field_matches_anywhere(query, val) ==
    /\ query # <<>>
    /\ val # <<>>
    /\ \E k \in 0..(Len(val) - Len(query)) : SubSeq(val, k + 1, k + Len(query)) = query

\* query and val and val.startswith(query)
field_matches(query, val) ==
    /\ query # <<>>
    /\ val # <<>>
    /\ StartsWith(val, query)

\* is_match: the four checks in their order, each skipped once one matched.
is_match(customer_info, q) ==
    LET m1 == field_matches(q[1], Lower(dict_get(customer_info, ID_HEADER)))
        m2 == m1 \/ (~m1 /\ field_matches(q[2], Lower(dict_get(customer_info, NAME_HEADER))))
        m3 == m2 \/ (~m2 /\ field_matches(q[3], Lower(dict_get(customer_info, PHONE_HEADER))))
        m4 == m3 \/ (~m3 /\ field_matches(q[4], Lower(dict_get(customer_info, ADDRESS_HEADER))))
    IN m4

\* formatted_customer
formatted_customer(customer_info) ==
    [id |-> dict_get(customer_info, ID_HEADER),
     name |-> dict_get(customer_info, NAME_HEADER),
     phone |-> dict_get(customer_info, PHONE_HEADER),
     address |-> dict_get(customer_info, ADDRESS_HEADER)]

\* for row in customer_sheet.iter_rows(min_row=2)
RECURSIVE customers_from(_, _, _, _)
customers_from(values, headers, q, k) ==
    IF k > Len(values) THEN <<>>
    ELSE LET customer_info ==
                 customer_info_of(headers, customer_row_data(values[k]), 1, EmptyDict)
         IN (IF is_match(customer_info, q)
             THEN <<formatted_customer(customer_info)>>
             ELSE <<>>)
            \o customers_from(values, headers, q, k + 1)

\* The list get_customers returns for the four query parameters.  An empty
\* sheet has a first row of one empty cell and no data row.
customers_of(values, a) ==
    LET q == [i \in 1..4 |-> query_of(a[i])]
    IN IF \A i \in 1..4 : q[i] = <<>> THEN <<>>
       ELSE IF values = <<>> THEN <<>>
       ELSE customers_from(values, customer_headers(values), q, 2)

\* The customer sheets and queries of the model.
MaxCustomerRows == 1

CustomerHeaderRows ==
    { <<Str(ID_HEADER), Str(NAME_HEADER), Str(PHONE_HEADER), Str(ADDRESS_HEADER)>>,
      <<Str(NAME_HEADER), Str(ID_HEADER), None, Str(ADDRESS_HEADER)>>,
      <<Str(ID_HEADER), Str(ID_HEADER), Str(PHONE_HEADER), Str(<<"x">>)>> }

CustomerCells == {None, Str(<<"A", "b">>), Str(<<SP, "b", "a">>)}
CustomerCellsShort == {None, Str(<<SP, "b", "a">>)}
CustomerRows == CustomerCells \X CustomerCells \X CustomerCellsShort \X CustomerCellsShort

CustomerSheets ==
    {<<>>}
    \cup {<<h>> \o d :
            h \in CustomerHeaderRows,
            d \in UNION {[1..n -> CustomerRows] : n \in 0..MaxCustomerRows}}

Queries == {<<>>, <<SP>>, <<SP, "A">>, <<"b">>}
QueriesShort == {<<>>, <<"B">>}
CustomerArgs == Queries \X Queries \X QueriesShort \X QueriesShort

InitCustomers ==
    /\ InitStoreIdle
    /\ call = "none"
    /\ sheet_rows \in CustomerSheets
    /\ args \in CustomerArgs
    /\ response = <<>>

\* GET /api/customers
get_customers ==
    /\ call = "none"
    /\ call' = "get_customers"
    /\ response' = customers_of(sheet_rows, args)
    /\ UNCHANGED <<sheet_rows, args, store_vars>>

NextCustomers == get_customers

SpecCustomers == InitCustomers /\ [][NextCustomers]_vars

\* A row's field, read off the sheet: the trimmed text of its cell in the
\* column under the field's header (nothing when no column has the header
\* or the cell is empty).
FieldOf(values, k, label) ==
    LET cols == {c \in 1..Len(values[1]) : values[1][c] = Str(label)}
    IN IF cols = {} THEN <<>>
       ELSE LET v == values[k][SetMax(cols)]
            IN IF v \in {None, Str(<<>>)} THEN <<>> ELSE Strip(v[2])

SameLetter(a, b) ==
    \/ a = b
    \/ {a, b} \in {{"a", "A"}, {"b", "B"}, {"c", "C"}}

\* A query, trimmed, is not empty and is a prefix of the field, case ignored.
PrefixOf(arg, field) ==
    LET q == Strip(arg)
    IN /\ q # <<>>
       /\ Len(q) <= Len(field)
       /\ \A i \in 1..Len(q) : SameLetter(q[i], field[i])

CustomerMatches(values, k, a) ==
    \/ PrefixOf(a[1], FieldOf(values, k, ID_HEADER))
    \/ PrefixOf(a[2], FieldOf(values, k, NAME_HEADER))
    \/ PrefixOf(a[3], FieldOf(values, k, PHONE_HEADER))
    \/ PrefixOf(a[4], FieldOf(values, k, ADDRESS_HEADER))

MatchingRows(values, a) == {k \in 2..Len(values) : CustomerMatches(values, k, a)}

\* C8: get_customers returns exactly the rows for which some query, once
\* trimmed, is not empty and is a case-insensitive prefix of the row's
\* trimmed field, in sheet order and each once: an OR over the four fields,
\* nothing for a substring that is no prefix, nothing when all four queries
\* are empty.
C8_PrefixSearch ==
    call = "get_customers" =>
        \E rows \in SUBSET (2..Len(sheet_rows)) :
            /\ rows = MatchingRows(sheet_rows, args)
            /\ Len(response) = Cardinality(rows)
            /\ \A n \in 1..Len(response) :
                  \E k \in rows :
                     /\ Cardinality({j \in rows : j <= k}) = n
                     /\ response[n] =
                           [id |-> FieldOf(sheet_rows, k, ID_HEADER),
                            name |-> FieldOf(sheet_rows, k, NAME_HEADER),
                            phone |-> FieldOf(sheet_rows, k, PHONE_HEADER),
                            address |-> FieldOf(sheet_rows, k, ADDRESS_HEADER)]

C8_Witness ==
    /\ call = "get_customers"
    /\ args = <<<<>>, <<SP, "A">>, <<>>, <<"B">>>>
    /\ Len(sheet_rows) = 2
    /\ sheet_rows[1][1] = Str(NAME_HEADER)
    /\ sheet_rows[2] = <<Str(<<SP, "b", "a">>), Str(<<"A", "b">>), None, Str(<<SP, "b", "a">>)>>
    /\ Len(response) = 1
    /\ response[1].address = <<"b", "a">>

(***************************************************************************)
(* get_goods_data: the goods sheet as a list of {name, spec, stock}        *)
(***************************************************************************)
\* Stand-ins for the three header labels of the goods sheet: G (product
\* name), F (specification), K (stock).
GOODS_NAME_HEADER == <<"G">>
GOODS_SPEC_HEADER == <<"F">>
GOODS_STOCK_HEADER == <<"K">>

\* headers = [str(cell.value).strip() for cell in goods_sheet[1] if cell.value]:
\* the header cells that are empty are left out of the list.
RECURSIVE goods_headers_from(_, _)
goods_headers_from(header_row, c) ==
    IF c > Len(header_row) THEN <<>>
    ELSE (IF Truthy(header_row[c]) THEN <<Strip(PyStr(header_row[c]))>> ELSE <<>>)
         \o goods_headers_from(header_row, c + 1)

goods_headers(values) == goods_headers_from(values[1], 1)

\* {headers[i]: ... for i, cell in enumerate(row)} evaluates headers[i] for
\* every cell of the row: it raises IndexError when the row has more cells
\* than the header list has entries.
row_dict_raises(headers, row) == Len(row) > Len(headers)

\* row_dict: headers[i] -> str(cell.value).strip() if cell.value else ''
RECURSIVE row_dict_of(_, _, _, _)
row_dict_of(headers, row, i, row_dict) ==
    IF i > Len(row) THEN row_dict
    ELSE row_dict_of(headers, row, i + 1,
             dict_set(row_dict, headers[i],
                      IF Truthy(row[i]) THEN Strip(PyStr(row[i])) ELSE <<>>))

\* formatted_item
formatted_item(row_dict) ==
    [name |-> dict_get(row_dict, GOODS_NAME_HEADER),
     spec |-> dict_get(row_dict, GOODS_SPEC_HEADER),
     stock |-> dict_get(row_dict, GOODS_STOCK_HEADER)]

\* for row in goods_sheet.iter_rows(min_row=2)
RECURSIVE goods_from(_, _, _)
goods_from(values, headers, k) ==
    IF k > Len(values) THEN <<>>
    ELSE <<formatted_item(row_dict_of(headers, values[k], 1, EmptyDict))>>
         \o goods_from(values, headers, k + 1)

\* get_goods_data's response: the list, or the error response of the except
\* clause when a row raised.  An empty sheet has no data row.
goods_response(values) ==
    IF values = <<>> THEN [status |-> "ok", body |-> <<>>]
    ELSE IF \E k \in 2..Len(values) : row_dict_raises(goods_headers(values), values[k])
    THEN [status |-> "error", body |-> <<>>]
    ELSE [status |-> "ok", body |-> goods_from(values, goods_headers(values), 2)]

\* The goods sheets of the model: three columns, as many cells in every row.
MaxGoodsRows == 2

GoodsHeaderCells ==
    {None, Str(GOODS_NAME_HEADER), Str(GOODS_SPEC_HEADER), Str(<<SP, "K">>), Str(<<"x">>)}
GoodsCells == {None, Str(<<"r", SP>>), Int(<<"3">>)}

\* A sheet's extent is that of its cells: every column and the last row
\* hold a cell that is not empty.
Rectangle(values) ==
    /\ \A c \in 1..Len(values[1]) : \E k \in 1..Len(values) : ~IsNone(values[k][c])
    /\ \E c \in 1..Len(values[1]) : ~IsNone(values[Len(values)][c])

GoodsSheets ==
    {<<>>}
    \cup {v \in {<<h>> \o d :
                   h \in {x \in GoodsHeaderCells \X GoodsHeaderCells \X GoodsHeaderCells :
                             \A i, j \in 1..3 : (i # j /\ x[i] = x[j]) => x[i] = None},
                   d \in UNION {[1..n -> GoodsCells \X GoodsCells \X GoodsCells] :
                                   n \in 0..MaxGoodsRows}} :
             Rectangle(v)}

InitGoods ==
    /\ InitStoreIdle
    /\ call = "none"
    /\ sheet_rows \in GoodsSheets
    /\ args = <<>>
    /\ response = <<>>

\* GET /api/goods
get_goods_data ==
    /\ call = "none"
    /\ call' = "get_goods_data"
    /\ response' = goods_response(sheet_rows)
    /\ UNCHANGED <<sheet_rows, args, store_vars>>

NextGoods == get_goods_data

SpecGoods == InitGoods /\ [][NextGoods]_vars

\* A goods row's field, read off the sheet: the trimmed text of its cell in
\* the column whose trimmed header is the field's label; nothing when no
\* column has that header or the cell is empty.
GoodsField(values, k, label) ==
    LET cols == {c \in 1..Len(values[1]) :
                    IsStr(values[1][c]) /\ Strip(values[1][c][2]) = label}
    IN IF cols = {} THEN <<>>
       ELSE LET v == values[k][SetMax(cols)]
            IN IF v \in {None, Str(<<>>)} THEN <<>> ELSE Strip(v[2])

\* C10: get_goods_data returns one {name, spec, stock} per data row, in row
\* order, each field the trimmed cell under the field's header and empty
\* when the cell is blank or the header is absent, whatever the header row:
\* a blank header cell neither aborts the scan nor shifts a value.
C10_GoodsScan ==
    (call = "get_goods_data" /\ sheet_rows # <<>>) =>
        /\ response.status = "ok"
        /\ Len(response.body) = Len(sheet_rows) - 1
        /\ \A k \in 2..Len(sheet_rows) :
              response.body[k - 1] =
                  [name |-> GoodsField(sheet_rows, k, GOODS_NAME_HEADER),
                   spec |-> GoodsField(sheet_rows, k, GOODS_SPEC_HEADER),
                   stock |-> GoodsField(sheet_rows, k, GOODS_STOCK_HEADER)]
====
